---- MODULE Spec2Model ----
(***************************************************************************)
(* A model of swirlyswirls: the emitter heartbeat (compsys.emitter_system), *)
(* the particle glue (compsys.particle_rsai_system), the bounce example     *)
(* (compsys.container_system) and the system registration of the demos.     *)
(*                                                                          *)
(* Time is a discrete clock.  The Cooldown and LerpThing objects of         *)
(* pgcooldown read the wall clock; here every timer carries its remaining   *)
(* time and the Advance actions count it down.  Vectors are pairs <<x, y>>  *)
(* of integers, normalized times and lerped values are exact fractions      *)
(* [num, den].                                                              *)
(***************************************************************************)
EXTENDS Integers, Sequences, FiniteSets, TLC

VARIABLES
    now,            \* the clock of the emitter scene
    args,           \* the arguments the Emitter was constructed with
    entity,         \* the components of the entity owning the emitter
    emitter,        \* the Emitter object
    last,           \* what the last emitter_system call did
    firings,        \* number of emitter_system calls that found the tick cold
    zone_calls,     \* number of zone.emit invocations so far
    factory_calls,  \* number of particle_factory invocations so far
    armed_at,       \* the clock when the tick was last re-armed, -1 before that
    particle,       \* the Particle component: rotate, scale, alpha
    rsai,           \* the RSAImage: rotate, scale, alpha, lock
    rsai0,          \* the RSAImage as it was before the first call
    rpc,            \* the line particle_rsai_system is at, "idle" between calls
    written,        \* the channels written since the lock was last taken
    rcalls,         \* number of particle_rsai_system calls that returned
    rlast,          \* "call" right after a return, "none" once time has passed
    demo,           \* the demo scene that runs
    systems,        \* the registry of systems, in the order they run
    demo_momentum,  \* Demo.momentum of the explosions demo
    demo_cooldown,  \* Demo.cooldown: when to launch the next emitters
    launched,       \* number of emitter entities launched so far
    dpc,            \* the system run_all_systems is at, 0 between frames
    passes,         \* the systems run so far in the current frame
    container,      \* container_system: the bounding Rect
    position,       \* container_system: the position component
    momentum,       \* container_system: the momentum component
    sprite,         \* container_system: sprite.rect
    bounce,         \* container_system: the arguments of the last call
    zone,           \* the zone object: its kind and its fields
    zout            \* what the last zone.emit call drew and returned

evars == <<args, entity, emitter, last, firings, zone_calls, factory_calls,
          armed_at>>

rvars == <<particle, rsai, rsai0, rpc, written, rcalls, rlast>>

dvars == <<demo, systems, demo_momentum, demo_cooldown, launched, dpc, passes>>

cvars == <<container, position, momentum, sprite, bounce>>

zvars == <<zone, zout>>

vars == <<now, evars, rvars, dvars, cvars, zvars>>

----------------------------------------------------------------------------
(* Bounds of the model *)

MaxTime == 6

MaxCalls == 3

MaxLaunched == 6

MaxCoord == 10

\* the random draws of the zones are the fractions k / RndDen in [0, 1)
RndDen == 4

----------------------------------------------------------------------------
(* Helpers: vectors, fractions *)

Min(a, b) == IF a <= b THEN a ELSE b

Max(a, b) == IF a >= b THEN a ELSE b

ZeroVec == <<0, 0>>

VAdd(a, b) == <<a[1] + b[1], a[2] + b[2]>>

Frac(n, d) == [num |-> n, den |-> d]

Zero == Frac(0, 1)

\* numeric equality of two fractions
FracEq(a, b) == a.num * b.den = b.num * a.den

\* int(x): truncation toward zero
Trunc(f) ==
    IF f.num >= 0 THEN f.num \div f.den ELSE -((-f.num) \div f.den)

----------------------------------------------------------------------------
(* pgcooldown.Cooldown as the emitter uses it *)

\* Cooldown(duration, cold=...)
Cooldown(duration, cold) ==
    [duration |-> duration, remaining |-> IF cold THEN 0 ELSE duration]

\* mutant: the timer counts as cold one time unit early
HotEarly(c) == c.remaining > 1

\* mutant: the timer never counts as hot
HotNever(c) == FALSE

Hot(c) == c.remaining > 0

Cold(c) == ~Hot(c)

\* Cooldown.reset(new)
Reset(c, new) == [duration |-> new, remaining |-> new]

\* Cooldown.normalized
Normalized(c) == Frac(c.duration - c.remaining, c.duration)

Elapse(c, dt) == [c EXCEPT !.remaining = Max(0, c.remaining - dt)]

\* LerpThing(vt0, vt1, duration)
LerpThing(vt0, vt1, duration) ==
    [vt0 |-> vt0, vt1 |-> vt1, duration |-> Cooldown(duration, FALSE)]

\* mutant: no special case for a zero duration, which is cold at once
LerpThingCallNoZero(l) ==
    IF Cold(l.duration) THEN Frac(l.vt1, 1)
    ELSE Frac(l.vt0 * l.duration.duration
                + (l.vt1 - l.vt0) * (l.duration.duration - l.duration.remaining),
              l.duration.duration)

\* LerpThing.__call__: vt0 when the duration is zero, else the lerp over the
\* normalized duration, vt1 once the duration is over
LerpThingCall(l) ==
    IF l.duration.duration = 0 THEN Frac(l.vt0, 1)
    ELSE IF Cold(l.duration) THEN Frac(l.vt1, 1)
    ELSE Frac(l.vt0 * l.duration.duration
                + (l.vt1 - l.vt0) * (l.duration.duration - l.duration.remaining),
              l.duration.duration)

----------------------------------------------------------------------------
(* Emitter construction *)

\* an optional argument: <<>> is None, <<v>> is the value v
None == <<>>

\* mutant: the fallback heartbeat is the default 0.1 and not the tick given
TickerDefault(tick, ticklist) == IF ticklist # <<>> THEN ticklist ELSE <<1>>

\* cycle(ticklist) if ticklist else cycle([tick])
Ticker(tick, ticklist) == IF ticklist # <<>> THEN ticklist ELSE <<tick>>

\* total_emits if total_emits is not None else -1
Remaining(total_emits) == IF total_emits # None THEN total_emits[1] ELSE -1

\* mutant: the heartbeat is constructed hot
EmitterHot(a) ==
    [ept              |-> LerpThing(a.vt0, a.vt1, a.duration),
     tick             |-> Cooldown(a.tick, FALSE),
     ticker           |-> Ticker(a.tick, a.ticklist),
     cursor           |-> 1,
     remaining        |-> Remaining(a.total_emits),
     inherit_momentum |-> a.inherit_momentum]

\* Emitter.__post_init__
Emitter(a) ==
    [ept              |-> LerpThing(a.vt0, a.vt1, a.duration),
     tick             |-> Cooldown(a.tick, TRUE),
     ticker           |-> Ticker(a.tick, a.ticklist),
     cursor           |-> 1,
     remaining        |-> Remaining(a.total_emits),
     inherit_momentum |-> a.inherit_momentum]

----------------------------------------------------------------------------
(* The emitters and entities the model runs *)

TickArgs == {1, 3}

TickLists == {<<>>, <<1>>, <<1, 2>>}

TotalEmits == {None, <<0>>, <<2>>, <<5>>}

\* <<vt0, vt1>> of the ept LerpThing
Rates == {<<2, 2>>, <<3, 1>>, <<-1, 2>>}

Durations == {0, 3}

InheritMomentum == 0 .. 3

EmitterArgs ==
    [tick : TickArgs, ticklist : TickLists, total_emits : TotalEmits,
     vt0 : {r[1] : r \in Rates}, vt1 : {r[2] : r \in Rates},
     duration : Durations, inherit_momentum : InheritMomentum]

\* the lifetime component is a Cooldown
LifetimeDuration == 4

Entities ==
    [has_lifetime : BOOLEAN, lifetime : {Cooldown(LifetimeDuration, FALSE)},
     has_momentum : BOOLEAN, momentum : {<<5, 0>>}, position : {<<10, 20>>}]

\* what zone.emit may return: <<position, momentum>>
ZoneSamples == {<< <<1, 0>>, <<0, 3>> >>, << <<0, -1>>, <<-2, 1>> >>}

\* the log entry of a step that is no emitter_system call
NoCall ==
    [op |-> "none", hot |-> FALSE, stage |-> "none", armed |-> 0, t |-> Zero,
     emits |-> 0, zone |-> <<>>, particles |-> <<>>, before |-> 0,
     rate |-> 0, since |-> 0, prev |-> 0]

EmitterInit ==
    /\ now = 0
    /\ args \in {a \in EmitterArgs : <<a.vt0, a.vt1>> \in Rates}
    /\ entity \in Entities
    /\ emitter = Emitter(args)
    /\ last = NoCall
    /\ firings = 0
    /\ zone_calls = 0
    /\ factory_calls = 0
    /\ armed_at = -1

----------------------------------------------------------------------------
(* The clock *)

Advance ==
    /\ now < MaxTime
    /\ now' = now + 1
    /\ emitter' = [emitter EXCEPT !.tick = Elapse(@, 1),
                                  !.ept.duration = Elapse(@, 1)]
    /\ entity' = [entity EXCEPT !.lifetime = Elapse(@, 1)]
    /\ last' = NoCall
    /\ UNCHANGED <<args, firings, zone_calls, factory_calls, armed_at>>
    /\ UNCHANGED <<rvars, dvars, cvars, zvars>>

----------------------------------------------------------------------------
(* emitter_system(dt, eid, emitter, position) *)

\* mutant: the two bits of inherit_momentum swapped
MomentumSwapped(inherit_momentum, e_momentum, z_momentum) ==
    VAdd(IF ((inherit_momentum \div 2) % 2) = 1 THEN e_momentum ELSE ZeroVec,
         IF (inherit_momentum % 2) = 1 THEN z_momentum ELSE ZeroVec)

\* the momentum handed to particle_factory for one zone sample
Momentum(inherit_momentum, e_momentum, z_momentum) ==
    VAdd(IF (inherit_momentum % 2) = 1 THEN e_momentum ELSE ZeroVec,
         IF ((inherit_momentum \div 2) % 2) = 1 THEN z_momentum ELSE ZeroVec)

\* e_momentum: the entity's momentum if bit 0 is set and it has one
EMomentum(inherit_momentum, e) ==
    IF (inherit_momentum % 2) = 1 /\ e.has_momentum THEN e.momentum ELSE ZeroVec

\* mutant: the lifetime is read without asking whether the entity has one
EmitTNoHas(ept, e) ==
    IF ept.duration.duration # 0 THEN Normalized(ept.duration)
    ELSE Normalized(e.lifetime)

\* t: from the duration if there is one, else from the lifetime, else 0
EmitT(ept, e) ==
    IF ept.duration.duration # 0 THEN Normalized(ept.duration)
    ELSE IF e.has_lifetime THEN Normalized(e.lifetime)
    ELSE Zero

\* mutant: the test on the duration inverted
WindowClosedWhileHot(ept) == ept.duration.duration # 0 /\ Hot(ept.duration)

\* a valid duration that is cold: the emission window is over
WindowClosed(ept) == ept.duration.duration # 0 /\ Cold(ept.duration)

\* mutant: no clamp to the remaining budget
ClampNone(emits, remaining) == emits

\* mutant: the clamp is applied whatever remaining is
ClampAlways(emits, remaining) == Min(emits, remaining)

\* emits = min(emits, remaining) when remaining > 0
Clamp(emits, remaining) ==
    IF remaining > 0 THEN Min(emits, remaining) ELSE emits

\* remaining -= emits when remaining > 0
Subtract(emits, remaining) ==
    IF remaining > 0 THEN remaining - emits ELSE remaining

\* mutant: next() hands out the same value again
NextCursorStuck(e) == e.cursor

\* the ticker advanced by one next()
NextCursor(e) == (e.cursor % Len(e.ticker)) + 1

\* the log entry of a call: rate is int(ept()) before any clamping, since the
\* time since the tick was last re-armed, prev the interval it was armed with
Call(hot, stage, armed, t, rate, emits, samples, particles) ==
    [op |-> "emitter_system", hot |-> hot, stage |-> stage, armed |-> armed,
     t |-> t, emits |-> emits, zone |-> samples, particles |-> particles,
     before |-> emitter.remaining, rate |-> rate,
     since |-> IF armed_at < 0 THEN 0 ELSE now - armed_at,
     prev |-> emitter.tick.duration]

EmitterSystem ==
    /\ UNCHANGED <<rvars, dvars, cvars, zvars>>
    /\ IF Hot(emitter.tick)
       THEN /\ last' = Call(TRUE, "hot", 0, Zero, 0, 0, <<>>, <<>>)
            /\ UNCHANGED <<now, args, entity, emitter, firings, zone_calls,
                           factory_calls, armed_at>>
       ELSE
       LET interval == emitter.ticker[emitter.cursor]
           rearmed  == [emitter EXCEPT !.tick = Reset(@, interval),
                                       !.cursor = NextCursor(emitter)]
           ept      == emitter.ept
       IN
       /\ firings' = firings + 1
       /\ armed_at' = now
       /\ UNCHANGED <<now, args, entity>>
       /\ IF emitter.remaining = 0
          THEN /\ emitter' = rearmed
               /\ last' = Call(FALSE, "exhausted", interval, Zero, 0, 0, <<>>, <<>>)
               /\ UNCHANGED <<zone_calls, factory_calls>>
          ELSE IF WindowClosed(ept)
          THEN /\ emitter' = rearmed
               /\ last' = Call(FALSE, "closed", interval, Zero, 0, 0, <<>>, <<>>)
               /\ UNCHANGED <<zone_calls, factory_calls>>
          ELSE
          LET t          == EmitT(ept, entity)
              rate       == Trunc(LerpThingCall(ept))
              emits      == Clamp(rate, emitter.remaining)
              e_momentum == EMomentum(emitter.inherit_momentum, entity)
              n          == Max(emits, 0)
          IN \E samples \in [1 .. n -> ZoneSamples] :
               /\ emitter' = [rearmed EXCEPT
                                !.remaining = Subtract(emits, emitter.remaining)]
               /\ last' = Call(FALSE, "emit", interval, t, rate, emits,
                               [i \in 1 .. n |->
                                  [t |-> t, position |-> samples[i][1],
                                   momentum |-> samples[i][2]]],
                               [i \in 1 .. n |->
                                  [t |-> t,
                                   position |-> VAdd(entity.position, samples[i][1]),
                                   momentum |-> Momentum(emitter.inherit_momentum,
                                                         e_momentum, samples[i][2])]])
               /\ zone_calls' = zone_calls + n
               /\ factory_calls' = factory_calls + n

EmitterNext == Advance \/ EmitterSystem

----------------------------------------------------------------------------
(* Particle and particle_rsai_system(dt, eid, particle, rsai) *)

Channels == {"rotate", "scale", "alpha"}

\* Particle(rotate=None, scale=None, alpha=None): each a LerpThing or None
Particles ==
    [rotate : {None, <<LerpThing(0, 90, 3)>>},
     scale  : {None, <<LerpThing(1, 4, 2)>>},
     alpha  : {None, <<LerpThing(255, 0, 3)>>}]

\* the descriptors the glue may find: rotate, scale, alpha, lock
RSAImages ==
    [rotate : {Frac(0, 1), Frac(45, 1)}, scale : {Frac(1, 1), Frac(2, 1)},
     alpha : {Frac(255, 1), Frac(128, 1)}, lock : {FALSE}]

\* LerpThing.v
V(l) == LerpThingCall(l)

Present(p) == {c \in Channels : p[c] # None}

\* no particle in the scene
RsaiOff ==
    /\ particle = [rotate |-> None, scale |-> None, alpha |-> None]
    /\ rsai = [rotate |-> Frac(0, 1), scale |-> Frac(1, 1),
               alpha |-> Frac(255, 1), lock |-> FALSE]
    /\ rsai0 = rsai
    /\ rpc = "idle"
    /\ written = {}
    /\ rcalls = 0
    /\ rlast = "none"

\* no emitter in the scene
EmitterOff ==
    /\ args = [tick |-> 1, ticklist |-> <<>>, total_emits |-> <<0>>, vt0 |-> 0,
               vt1 |-> 0, duration |-> 0, inherit_momentum |-> 0]
    /\ entity = [has_lifetime |-> FALSE, lifetime |-> Cooldown(LifetimeDuration, FALSE),
                 has_momentum |-> FALSE, momentum |-> ZeroVec, position |-> ZeroVec]
    /\ emitter = Emitter(args)
    /\ last = NoCall
    /\ firings = 0
    /\ zone_calls = 0
    /\ factory_calls = 0
    /\ armed_at = -1

RsaiInit ==
    /\ now = 0
    /\ EmitterOff
    /\ particle \in Particles
    /\ rsai \in RSAImages
    /\ rsai0 = rsai
    /\ rpc = "idle"
    /\ written = {}
    /\ rcalls = 0
    /\ rlast = "none"

\* the drivers read the clock: it moves between two calls
RsaiAdvance ==
    /\ rpc = "idle"
    /\ now < MaxTime
    /\ now' = now + 1
    /\ particle' = [c \in Channels |->
                      IF particle[c] = None THEN None
                      ELSE <<[particle[c][1] EXCEPT !.duration = Elapse(@, 1)]>>]
    /\ rlast' = "none"
    /\ UNCHANGED <<rsai, rsai0, rpc, written, rcalls>>
    /\ UNCHANGED <<evars, dvars, cvars, zvars>>

\* mutant: the lock is not taken
RsaiLockForgotten ==
    /\ rpc = "idle"
    /\ rcalls < MaxCalls
    /\ written' = {}
    /\ rpc' = "rotate"
    /\ rlast' = "none"
    /\ UNCHANGED <<now, particle, rsai, rsai0, rcalls>>
    /\ UNCHANGED <<evars, dvars, cvars, zvars>>

\* rsai.lock = True
RsaiLock ==
    /\ rpc = "idle"
    /\ rcalls < MaxCalls
    /\ rsai' = [rsai EXCEPT !.lock = TRUE]
    /\ written' = {}
    /\ rpc' = "rotate"
    /\ rlast' = "none"
    /\ UNCHANGED <<now, particle, rsai0, rcalls>>
    /\ UNCHANGED <<evars, dvars, cvars, zvars>>

\* if particle.<c> is not None: rsai.<c> = particle.<c>.v
RsaiWrite(c, next) ==
    /\ rpc = c
    /\ IF particle[c] # None
       THEN /\ rsai' = [rsai EXCEPT ![c] = V(particle[c][1])]
            /\ written' = written \cup {c}
       ELSE UNCHANGED <<rsai, written>>
    /\ rpc' = next
    /\ UNCHANGED <<now, particle, rsai0, rcalls, rlast>>
    /\ UNCHANGED <<evars, dvars, cvars, zvars>>

RsaiRotate == RsaiWrite("rotate", "scale")

RsaiScale == RsaiWrite("scale", "alpha")

\* mutant: the alpha value lands in the scale field
RsaiAlphaIntoScale ==
    /\ rpc = "alpha"
    /\ IF particle.alpha # None
       THEN /\ rsai' = [rsai EXCEPT !.scale = V(particle.alpha[1])]
            /\ written' = written \cup {"alpha"}
       ELSE UNCHANGED <<rsai, written>>
    /\ rpc' = "unlock"
    /\ UNCHANGED <<now, particle, rsai0, rcalls, rlast>>
    /\ UNCHANGED <<evars, dvars, cvars, zvars>>

RsaiAlpha == RsaiWrite("alpha", "unlock")

\* rsai.lock = False
RsaiUnlock ==
    /\ rpc = "unlock"
    /\ rsai' = [rsai EXCEPT !.lock = FALSE]
    /\ rpc' = "idle"
    /\ rcalls' = rcalls + 1
    /\ rlast' = "call"
    /\ UNCHANGED <<now, particle, rsai0, written>>
    /\ UNCHANGED <<evars, dvars, cvars, zvars>>

RsaiNext ==
    \/ RsaiAdvance
    \/ RsaiLock
    \/ RsaiRotate
    \/ RsaiScale
    \/ RsaiAlpha
    \/ RsaiUnlock
----------------------------------------------------------------------------
(* The demo scenes: rain, explosions, beam *)

Demos == {"rain", "explosions", "beam"}

\* ecs.add_system(fkt, *comps): the registry runs its systems in the order
\* they were registered
AddSystem(registry, fkt) == Append(registry, fkt)

\* ecs.remove_system(fkt)
RemoveSystem(registry, fkt) == SelectSeq(registry, LAMBDA f : f # fkt)

\* Demo.ecs_register_systems
RegisterSystems(d) ==
    IF d = "beam"
    THEN AddSystem(AddSystem(AddSystem(AddSystem(AddSystem(<<>>,
            "lifetime_system"), "emitter_system"), "particle_rsai_system"),
            "momentum_system"), "sprite_system")
    ELSE AddSystem(AddSystem(AddSystem(AddSystem(<<>>,
            "lifetime_system"), "emitter_system"), "particle_rsai_system"),
            "sprite_system")

\* Demo.cooldown: Cooldown(5, cold=True), Cooldown(3, cold=True), none in rain
DemoCooldown(d) ==
    IF d = "explosions" THEN Cooldown(5, TRUE)
    ELSE IF d = "beam" THEN Cooldown(3, TRUE)
    ELSE Cooldown(0, TRUE)

\* emitters launched per Demo.update with the cooldown cold
LaunchCount(d) == IF d = "explosions" THEN 3 ELSE IF d = "beam" THEN 1 ELSE 0

\* no demo runs
DemoOff ==
    /\ demo = "none"
    /\ systems = <<>>
    /\ demo_momentum = FALSE
    /\ demo_cooldown = Cooldown(0, TRUE)
    /\ launched = 0
    /\ dpc = 0
    /\ passes = <<>>

\* Demo.__init__
DemoInit ==
    /\ now = 0
    /\ EmitterOff
    /\ demo \in Demos
    /\ systems = RegisterSystems(demo)
    /\ demo_momentum = FALSE
    /\ demo_cooldown = DemoCooldown(demo)
    /\ launched = (IF demo = "rain" THEN 1 ELSE 0)
    /\ dpc = 0
    /\ passes = <<>>

\* Demo.dispatch_event(e) with e a KEYDOWN of K_SPACE
DispatchSpace ==
    /\ demo = "explosions"
    /\ dpc = 0
    /\ demo_momentum' = ~demo_momentum
    /\ systems' = IF demo_momentum'
                  THEN AddSystem(systems, "momentum_system")
                  ELSE RemoveSystem(systems, "momentum_system")
    /\ UNCHANGED <<now, demo, demo_cooldown, launched, dpc, passes>>
    /\ UNCHANGED <<evars, rvars, cvars, zvars>>

\* Demo.update(dt) up to ecs.run_all_systems(dt)
Update ==
    /\ dpc = 0
    /\ IF LaunchCount(demo) > 0 /\ Cold(demo_cooldown)
            /\ launched + LaunchCount(demo) <= MaxLaunched
       THEN /\ demo_cooldown' = Reset(demo_cooldown, demo_cooldown.duration)
            /\ launched' = launched + LaunchCount(demo)
       ELSE UNCHANGED <<demo_cooldown, launched>>
    /\ dpc' = 1
    /\ passes' = <<>>
    /\ UNCHANGED <<now, demo, systems, demo_momentum>>
    /\ UNCHANGED <<evars, rvars, cvars, zvars>>

\* ecs.run_all_systems(dt): the next system of the registry
RunSystem ==
    /\ dpc \in DOMAIN systems
    /\ passes' = Append(passes, systems[dpc])
    /\ dpc' = IF dpc = Len(systems) THEN 0 ELSE dpc + 1
    /\ UNCHANGED <<now, demo, systems, demo_momentum, demo_cooldown, launched>>
    /\ UNCHANGED <<evars, rvars, cvars, zvars>>

\* time passes between two frames
DemoAdvance ==
    /\ dpc = 0
    /\ now < MaxTime
    /\ now' = now + 1
    /\ demo_cooldown' = Elapse(demo_cooldown, 1)
    /\ UNCHANGED <<demo, systems, demo_momentum, launched, dpc, passes>>
    /\ UNCHANGED <<evars, rvars, cvars, zvars>>

DemoNext == DispatchSpace \/ Update \/ RunSystem \/ DemoAdvance

----------------------------------------------------------------------------
(* container_system(dt, eid, container, position, momentum, sprite) *)

\* pygame.Rect(left, top, width, height)
Rect(left, top, width, height) ==
    [left |-> left, top |-> top, width |-> width, height |-> height]

Right(r) == r.left + r.width

Bottom(r) == r.top + r.height

Containers == {Rect(0, 0, 8, 8), Rect(2, 1, 6, 7)}

Coords == (0 - 2) .. MaxCoord

Momenta == {<<mx, my>> : mx \in {0 - 2, 0, 1}, my \in {0 - 1, 0, 2}}

\* the x axis of container_system: <<position.x, momentum.x>> after the call
BounceX(c, pos, mom, rect) ==
    IF rect.left < c.left /\ mom[1] < 0
    THEN <<pos[1] + (0 - 2) * rect.left, 0 - mom[1]>>
    ELSE IF Right(rect) > Right(c) /\ mom[1] > 0
    THEN <<pos[1] + 2 * (c.width - Right(rect)), 0 - mom[1]>>
    ELSE <<pos[1], mom[1]>>

\* the y axis of container_system: <<position.y, momentum.y>> after the call;
\* mx is momentum.x as the x axis left it
BounceY(c, pos, mom, rect, mx) ==
    IF rect.top < c.top /\ mx < 0
    THEN <<pos[2] + (0 - 2) * rect.top, 0 - mom[2]>>
    ELSE IF Bottom(rect) > Bottom(c) /\ mom[2] > 0
    THEN <<pos[2] + 2 * (c.height - Bottom(rect)), 0 - mom[2]>>
    ELSE <<pos[2], mom[2]>>

NoBounce == [called |-> FALSE, position |-> ZeroVec, momentum |-> ZeroVec]

\* no bouncing sprite in the scene
ContainerOff ==
    /\ container = Rect(0, 0, 0, 0)
    /\ position = ZeroVec
    /\ momentum = ZeroVec
    /\ sprite = Rect(0, 0, 0, 0)
    /\ bounce = NoBounce

\* a sprite of 2 x 2 centred on its position
SpriteRect(pos) == Rect(pos[1] - 1, pos[2] - 1, 2, 2)

ContainerInit ==
    /\ now = 0
    /\ EmitterOff
    /\ container \in Containers
    /\ position \in Coords \X Coords
    /\ momentum \in Momenta
    /\ sprite = SpriteRect(position)
    /\ bounce = NoBounce

\* one call a frame, on the rect sprite_system has synced with the position
ContainerSystem ==
    LET x == BounceX(container, position, momentum, sprite)
        y == BounceY(container, position, momentum, sprite, x[2])
    IN /\ ~bounce.called
       /\ position' = <<x[1], y[1]>>
       /\ momentum' = <<x[2], y[2]>>
       /\ bounce' = [called |-> TRUE, position |-> position, momentum |-> momentum]
       /\ UNCHANGED <<now, container, sprite>>
       /\ UNCHANGED <<evars, rvars, dvars, zvars>>

\* tinyecs sprite_system: sprite.rect.center = position
SpriteSystem ==
    /\ bounce.called
    /\ sprite' = SpriteRect(position)
    /\ bounce' = NoBounce
    /\ UNCHANGED <<now, container, position, momentum>>
    /\ UNCHANGED <<evars, rvars, dvars, zvars>>

ContainerNext == ContainerSystem \/ SpriteSystem

----------------------------------------------------------------------------
(* The zones: ZoneRect, ZoneCircle, ZoneBeam *)

\* a vector of rationals: <<x / den, y / den>>, den > 0
RVec(x, y, den) == [x |-> x, y |-> y, den |-> den]

RAdd(a, b) == RVec(a.x * b.den + b.x * a.den, a.y * b.den + b.y * a.den,
                   a.den * b.den)

RSub(a, b) == RVec(a.x * b.den - b.x * a.den, a.y * b.den - b.y * a.den,
                   a.den * b.den)

\* vector * scalar, the scalar a fraction with a positive denominator
RScale(a, f) == RVec(a.x * f.num, a.y * f.num, a.den * f.den)

\* random(), rnd_p(), rnd_m()
Rnd == {Frac(k, RndDen) : k \in 0 .. RndDen - 1}

\* random() as ZoneCircle draws its angle: quarter turns of the full arc
RndPhi == {Frac(k, 4) : k \in 0 .. 3}

\* x - 0.5
MinusHalf(f) == Frac(2 * f.num - f.den, 2 * f.den)

\* Vector2.length() of a vector with integer coordinates and integer length
Length(v) == CHOOSE n \in 0 .. (v[1] * v[1] + v[2] * v[2]) :
                 n * n = v[1] * v[1] + v[2] * v[2]

\* Vector2.rotate(phi), phi a multiple of 90 degrees
Rotate(v, phi) ==
    CASE phi % 360 = 0   -> v
      [] phi % 360 = 90  -> RVec(0 - v.y, v.x, v.den)
      [] phi % 360 = 180 -> RVec(0 - v.x, 0 - v.y, v.den)
      [] phi % 360 = 270 -> RVec(v.y, 0 - v.x, v.den)

\* pygame.Rect.center
Center(r) == <<r.left + (r.width \div 2), r.top + (r.height \div 2)>>

\* mutant: the draw is not centred on the rectangle
ZoneRectEmitUncentred(z, p1, p2) ==
    LET pos == RVec(Trunc(Frac(z.r.width * p1.num, p1.den)),
                    Trunc(Frac(z.r.height * p2.num, p2.den)), 1)
    IN <<pos, RSub(pos, RVec(Center(z.r)[1], Center(z.r)[2], 1))>>

\* ZoneRect.emit: <<position, momentum>>, p1 and p2 the two rnd_p() draws
ZoneRectEmit(z, p1, p2) ==
    LET h1  == MinusHalf(p1)
        h2  == MinusHalf(p2)
        pos == RVec(Trunc(Frac(z.r.width * h1.num, h1.den)),
                    Trunc(Frac(z.r.height * h2.num, h2.den)), 1)
    IN <<pos, RSub(pos, RVec(Center(z.r)[1], Center(z.r)[2], 1))>>

\* mutant: the radius is drawn from r1 upward
ZoneCircleEmitBeyond(z, p, a) ==
    LET r   == Frac((z.r1 - z.r0) * p.num + z.r1 * p.den, p.den)
        phi == ((z.phi1 - z.phi0) * a.num) \div a.den + z.phi0
        v   == Rotate(RVec(r.num, 0, r.den), phi)
    IN <<v, v>>

\* ZoneCircle.emit: p the rnd_p() draw, a the random() draw
ZoneCircleEmit(z, p, a) ==
    LET r   == Frac((z.r1 - z.r0) * p.num + z.r0 * p.den, p.den)
        phi == ((z.phi1 - z.phi0) * a.num) \div a.den + z.phi0
        v   == Rotate(RVec(r.num, 0, r.den), phi)
    IN <<v, v>>

\* ZoneBeam.__post_init__: self.w
ZoneBeamW(v, width) == RVec(v[2] * width, v[1] * width, Length(<<v[2], v[1]>>))

\* ZoneBeam.emit: p the rnd_p() draw, m the rnd_m() draw
ZoneBeamEmit(z, p, m) ==
    LET v == RScale(RVec(z.v[1], z.v[2], 1), p)
        w == RScale(ZoneBeamW(z.v, z.width), MinusHalf(m))
    IN <<RAdd(v, w), w>>

\* the fields of a zone that is not of the kind that uses them
NoRect == [left |-> 0, top |-> 0, width |-> 0, height |-> 0]

Zone(kind, r, radii, arc, v, width) ==
    [kind |-> kind, r |-> r, r0 |-> radii[1], r1 |-> radii[2],
     phi0 |-> arc[1], phi1 |-> arc[2], v |-> v, width |-> width]

\* ZoneRect(r=...)
Rects == [left : {0, 10}, top : {-7}, width : {0, 4, 5}, height : {3, 6}]

\* ZoneCircle(r0=..., r1=...): <<r0, r1>>
Radii == {<<0, 4>>, <<2, 6>>, <<3, 3>>, <<5, 1>>, <<-2, -1>>, <<-6, 2>>}

\* ZoneCircle(phi0=..., phi1=...): <<phi0, phi1>>
Arcs == {<<0, 360>>, <<-180, 180>>}

\* ZoneBeam(v=...)
BeamVectors == {<<5, 0>>, <<0, 5>>, <<3, 4>>, <<-4, 3>>, <<-3, -4>>}

\* ZoneBeam(width=...)
BeamWidths == {2, 5}

Zones ==
    {Zone("rect", r, <<0, 0>>, <<0, 0>>, ZeroVec, 0) : r \in Rects}
    \cup {Zone("circle", NoRect, rr[1], rr[2], ZeroVec, 0) : rr \in Radii \X Arcs}
    \cup {Zone("beam", NoRect, <<0, 0>>, <<0, 0>>, vw[1], vw[2]) :
            vw \in BeamVectors \X BeamWidths}

\* no zone.emit call so far
NoEmit == [called |-> FALSE, draws |-> <<Zero, Zero>>,
           position |-> RVec(0, 0, 1), momentum |-> RVec(0, 0, 1)]

Emitted(draws, result) ==
    [called |-> TRUE, draws |-> draws,
     position |-> result[1], momentum |-> result[2]]

ZoneOff ==
    /\ zone = Zone("none", NoRect, <<0, 0>>, <<0, 0>>, ZeroVec, 0)
    /\ zout = NoEmit

ZoneInit ==
    /\ zone \in Zones
    /\ zout = NoEmit

EmitFromRect ==
    /\ zone.kind = "rect"
    /\ \E p1 \in Rnd, p2 \in Rnd :
         zout' = Emitted(<<p1, p2>>, ZoneRectEmit(zone, p1, p2))
    /\ UNCHANGED <<now, zone, evars, rvars, dvars, cvars>>

EmitFromCircle ==
    /\ zone.kind = "circle"
    /\ \E p \in Rnd, a \in RndPhi :
         zout' = Emitted(<<p, a>>, ZoneCircleEmit(zone, p, a))
    /\ UNCHANGED <<now, zone, evars, rvars, dvars, cvars>>

EmitFromBeam ==
    /\ zone.kind = "beam"
    /\ \E p \in Rnd, m \in Rnd :
         zout' = Emitted(<<p, m>>, ZoneBeamEmit(zone, p, m))
    /\ UNCHANGED <<now, zone, evars, rvars, dvars, cvars>>

ZoneNext == EmitFromRect \/ EmitFromCircle \/ EmitFromBeam

----------------------------------------------------------------------------
(* The specifications *)

Init == EmitterInit /\ RsaiOff /\ DemoOff /\ ContainerOff /\ ZoneOff

Spec == Init /\ [][EmitterNext]_vars

RsaiSpecInit == RsaiInit /\ DemoOff /\ ContainerOff /\ ZoneOff

RsaiSpec == RsaiSpecInit /\ [][RsaiNext]_vars

DemoSpecInit == DemoInit /\ RsaiOff /\ ContainerOff /\ ZoneOff

DemoSpec == DemoSpecInit /\ [][DemoNext]_vars

ContainerSpecInit == ContainerInit /\ RsaiOff /\ DemoOff /\ ZoneOff

ContainerSpec == ContainerSpecInit /\ [][ContainerNext]_vars

ZoneSpecInit ==
    /\ now = 0
    /\ EmitterOff /\ RsaiOff /\ DemoOff /\ ContainerOff
    /\ ZoneInit

ZoneSpec == ZoneSpecInit /\ [][ZoneNext]_vars

----------------------------------------------------------------------------
(* Claims about the emitter *)

Called == last.op = "emitter_system"

\* the call found the tick cold and re-armed it
Fired == Called /\ ~last.hot

Budget == Remaining(args.total_emits)

\* C1: emitter.remaining never increases from one emitter_system call to the
\* next unless it is the sentinel -1, and once it is 0 no later call invokes
\* particle_factory (for any emission rate, negative ones included).
C1_RemainingNeverIncreases ==
    [][/\ emitter.remaining # -1 => emitter'.remaining <= emitter.remaining
       /\ emitter.remaining = 0 =>
            /\ emitter'.remaining = 0
            /\ factory_calls' = factory_calls]_vars

\* a finite budget N > 0 and a rate that is the same non-negative r all along
ConstantRate == args.vt0 = args.vt1 /\ args.vt0 >= 0

Budgeted == args.total_emits # None /\ Budget > 0

\* ticklist [0.1], rate 2, N = 5: <<spawned, remaining>> of firing 1, 2, 3, 4
Scenario == << <<2, 3>>, <<2, 1>>, <<1, 0>>, <<0, 0>> >>

InScenario ==
    /\ args.ticklist = <<1>>
    /\ args.vt0 = 2 /\ args.vt1 = 2 /\ args.duration = 0
    /\ args.total_emits = <<5>>

\* C2 as stated: with a finite budget N > 0 and a constant rate r >= 0, every
\* firing tick spawns exactly min(r, remaining) particles and subtracts that
\* number from remaining.
C2_EveryFiringSpawnsMin ==
    (Budgeted /\ ConstantRate /\ Fired) =>
        /\ Len(last.particles) = Min(args.vt0, last.before)
        /\ emitter.remaining = last.before - Len(last.particles)

\* C2 as the code has it: with a finite budget N > 0 and a constant rate
\* r >= 0, every firing tick inside the emission window (every firing tick
\* when the duration is zero) spawns min(r, remaining) particles and
\* subtracts them from remaining; the factory calls never exceed N and are N
\* once remaining is 0; ticklist [0.1], rate 2, N = 5 spawns 2, 2, 1, 0 and
\* leaves 3, 1, 0, 0.
C2_BudgetedConstantRate ==
    (Budgeted /\ ConstantRate) =>
        /\ factory_calls + emitter.remaining = Budget
        /\ factory_calls <= Budget
        /\ emitter.remaining = 0 => factory_calls = Budget
        /\ (Fired /\ last.stage # "closed") =>
             /\ Len(last.particles) = Min(args.vt0, last.before)
             /\ emitter.remaining = last.before - Len(last.particles)
        /\ (Fired /\ last.stage = "closed") =>
             /\ args.duration > 0 /\ last.before > 0
             /\ last.particles = <<>>
             /\ emitter.remaining = last.before
        /\ (InScenario /\ Fired /\ firings <= Len(Scenario)) =>
             <<Len(last.particles), emitter.remaining>> = Scenario[firings]

C2_Witness ==
    /\ InScenario /\ Fired /\ firings = 4
    /\ factory_calls = 5 /\ emitter.remaining = 0
    /\ last.particles = <<>>

\* C3: once the positive duration of the emission rate is cold, every later
\* emitter_system call invokes neither zone.emit nor particle_factory and
\* leaves remaining unchanged, and the duration stays cold; a call that finds
\* the heartbeat cold still re-arms it with the next tick interval.
C3_ClosedWindowStaysSilent ==
    [][(args.duration > 0 /\ Cold(emitter.ept.duration)) =>
         /\ Cold(emitter'.ept.duration)
         /\ zone_calls' = zone_calls
         /\ factory_calls' = factory_calls
         /\ emitter'.remaining = emitter.remaining
         /\ (last'.op = "emitter_system" /\ Cold(emitter.tick)) =>
              /\ emitter'.tick = Reset(emitter.tick, emitter.ticker[emitter.cursor])
              /\ firings' = firings + 1]_vars

C3_Witness ==
    /\ args.duration > 0 /\ Cold(emitter.ept.duration)
    /\ Fired /\ last.stage = "closed"
    /\ emitter.remaining > 0 /\ args.vt1 > 0
    /\ Hot(emitter.tick)
    /\ factory_calls > 0

\* C4: with a zero duration and no lifetime component on the owning entity,
\* the t handed to zone.emit and to particle_factory is 0 on every spawn.
C4_TimeIsZero ==
    (args.duration = 0 /\ ~entity.has_lifetime /\ Called) =>
        /\ \A i \in DOMAIN last.zone : FracEq(last.zone[i].t, Zero)
        /\ \A i \in DOMAIN last.particles : FracEq(last.particles[i].t, Zero)
        /\ Len(last.zone) = Len(last.particles)

C4_Witness ==
    /\ args.duration = 0 /\ ~entity.has_lifetime
    /\ Fired /\ Len(last.particles) >= 2
    /\ now >= 2 /\ firings >= 2

\* C5: for inherit_momentum in 0..3 the momentum of every spawned particle is
\* (the entity's momentum if bit 0 is set and the entity has one, else zero)
\* plus (the momentum of its zone sample if bit 1 is set, else zero); with
\* inherit_momentum 3, entity momentum (5,0) and zone momentum (0,3) it is
\* (5,3).
C5_MomentumComposition ==
    Called =>
        \A i \in DOMAIN last.particles :
            LET p  == last.particles[i]
                z  == last.zone[i]
                em == IF args.inherit_momentum \in {1, 3} /\ entity.has_momentum
                      THEN entity.momentum ELSE <<0, 0>>
                zm == IF args.inherit_momentum \in {2, 3}
                      THEN z.momentum ELSE <<0, 0>>
            IN /\ p.momentum = <<em[1] + zm[1], em[2] + zm[2]>>
               /\ (/\ args.inherit_momentum = 3 /\ entity.has_momentum
                   /\ entity.momentum = <<5, 0>> /\ z.momentum = <<0, 3>>)
                    => p.momentum = <<5, 3>>

C5_Witness ==
    /\ Called /\ args.inherit_momentum = 3 /\ entity.has_momentum
    /\ entity.momentum = <<5, 0>>
    /\ \E i \in DOMAIN last.particles :
          /\ last.zone[i].momentum = <<0, 3>>
          /\ last.particles[i].momentum = <<5, 3>>

\* C9 as stated: an Emitter is never constructed from an empty ticklist
\* (the construction is rejected), so no emitter has an empty tick sequence
\* argument.
C9_EmptyTicklistRejected == args.ticklist # <<>>

\* C9 as the code has it: an empty ticklist is accepted and the heartbeat
\* cycles the single `tick` argument: every firing arms the interval tick.
C9_EmptyTicklistFallsBackToTick ==
    args.ticklist = <<>> =>
        /\ Len(emitter.ticker) = 1
        /\ Fired => (last.armed = args.tick /\ emitter.tick.duration = args.tick)

C9_Witness ==
    /\ args.ticklist = <<>> /\ args.tick = 3
    /\ Fired /\ firings = 2 /\ last.armed = 3

----------------------------------------------------------------------------
(* Claims about the particle glue *)

\* C6: particle_rsai_system writes only the channels whose driver is present:
\* a channel whose driver is None keeps the value the descriptor had, across
\* any number of calls, and a channel whose driver is present equals the
\* driver's current value (.v) when the call has returned.
C6_OnlyPresentChannelsWritten ==
    \A c \in Channels :
        /\ particle[c] = None => rsai[c] = rsai0[c]
        /\ (particle[c] # None /\ rlast = "call") =>
               rsai[c] = LerpThingCall(particle[c][1])

C6_Witness ==
    /\ Present(particle) = {"alpha"}
    /\ rcalls = 2 /\ rlast = "call" /\ now = 2
    /\ rsai.rotate = Frac(45, 1) /\ rsai.scale = Frac(2, 1)
    /\ rsai.alpha = V(particle.alpha[1]) /\ rsai.alpha # rsai0.alpha

\* C7: every write to the descriptor's rotate, scale or alpha happens while
\* rsai.lock is true, rsai.lock is false when the call has returned, and no
\* state with the lock false has only part of a call's channels written.
C7_LockBracketsWrites ==
    /\ [](rpc = "idle" => ~rsai.lock)
    /\ [](~rsai.lock => (written = {} \/ written = Present(particle)))
    /\ [][(\E c \in Channels : rsai'[c] # rsai[c]) => (rsai.lock /\ rsai'.lock)]_vars

C7_Witness ==
    /\ Present(particle) = Channels
    /\ rpc = "alpha" /\ rsai.lock
    /\ written = {"rotate", "scale"}
    /\ rsai.rotate # rsai0.rotate /\ rsai.scale # rsai0.scale
    /\ now > 0

----------------------------------------------------------------------------
(* Claims about the demo scenes *)

\* the order of the passes of a frame
PassOrder ==
    <<"lifetime_system", "emitter_system", "particle_rsai_system",
      "momentum_system", "sprite_system">>

Rank(f) == CHOOSE i \in DOMAIN PassOrder : PassOrder[i] = f

InPassOrder(s) == \A i, j \in DOMAIN s : i < j => Rank(s[i]) < Rank(s[j])

\* C8: in every demo scene, at every point of its run (in the explosions demo
\* also after any number of space-key toggles), the registered passes run in
\* the order lifetime expiry, emitter update, particle glue, momentum
\* integration (when registered), sprite sync: momentum integration is never
\* after sprite sync and lifetime expiry is always first.
C8_PassOrderKept ==
    /\ InPassOrder(systems)
    /\ InPassOrder(passes)
    /\ systems # <<>> => systems[1] = "lifetime_system"

----------------------------------------------------------------------------
(* Claims about container_system *)

\* C10: for each container edge and any container rectangle: when the
\* sprite's edge is beyond that edge and the momentum on that axis points
\* outward, that momentum component is negated and the position on that axis
\* moves back by twice the penetration depth; otherwise momentum and position
\* on that axis are unchanged.
C10_ElasticReflection ==
    bounce.called =>
        LET p0 == bounce.position
            m0 == bounce.momentum
            x  == IF sprite.left < container.left /\ m0[1] < 0
                  THEN <<p0[1] + 2 * (container.left - sprite.left), 0 - m0[1]>>
                  ELSE IF Right(sprite) > Right(container) /\ m0[1] > 0
                  THEN <<p0[1] - 2 * (Right(sprite) - Right(container)), 0 - m0[1]>>
                  ELSE <<p0[1], m0[1]>>
            y  == IF sprite.top < container.top /\ m0[2] < 0
                  THEN <<p0[2] + 2 * (container.top - sprite.top), 0 - m0[2]>>
                  ELSE IF Bottom(sprite) > Bottom(container) /\ m0[2] > 0
                  THEN <<p0[2] - 2 * (Bottom(sprite) - Bottom(container)), 0 - m0[2]>>
                  ELSE <<p0[2], m0[2]>>
        IN /\ position = <<x[1], y[1]>>
           /\ momentum = <<x[2], y[2]>>

----------------------------------------------------------------------------
(* Claims about the heartbeat of the emitter *)

\* C14 as stated: the time between two consecutive spawn evaluations (calls
\* that pass the hot check and re-arm the tick) is at most the tick interval
\* armed by the earlier one.
C14_AtMostArmedInterval ==
    (Fired /\ firings >= 2) => last.since <= last.prev

\* C14, amended: the time between two consecutive spawn evaluations is at
\* least the tick interval armed by the earlier one.
C14_AtLeastArmedInterval ==
    (Fired /\ firings >= 2) => last.since >= last.prev

C14_Witness ==
    /\ Fired /\ firings >= 2
    /\ last.prev = 2
    /\ last.since > last.prev

\* C15: a call that finds the heartbeat timer hot changes nothing: remaining,
\* the ticker cursor and the armed interval are as before, zone.emit and
\* particle_factory are not invoked.
C15_HotCallChangesNothing ==
    [][(last'.op = "emitter_system" /\ emitter.tick.remaining > 0) =>
         /\ emitter' = emitter
         /\ firings' = firings
         /\ zone_calls' = zone_calls
         /\ factory_calls' = factory_calls
         /\ last'.zone = <<>>
         /\ last'.particles = <<>>]_vars

C15_Witness ==
    /\ Called /\ last.hot
    /\ emitter.remaining > 0
    /\ ~WindowClosed(emitter.ept)
    /\ Trunc(LerpThingCall(emitter.ept)) > 0
    /\ firings = 2

C17_ZeroDurationUsesStartRate ==
    (Fired /\ args.duration = 0) =>
        /\ last.before # 0 => last.stage = "emit"
        /\ last.stage = "emit" =>
             /\ last.rate = args.vt0
             /\ entity.has_lifetime =>
                  FracEq(last.t, Frac(LifetimeDuration - entity.lifetime.remaining,
                                      LifetimeDuration))

C17_Witness ==
    /\ Fired /\ args.duration = 0 /\ last.stage = "emit"
    /\ entity.has_lifetime
    /\ args.vt0 = 3 /\ args.vt1 = 1
    /\ last.rate = 3
    /\ last.t.num > 0 /\ last.t.num < last.t.den

\* C18: when the truncated rate of a firing tick is negative no particle is
\* spawned and remaining is left unchanged, whether the budget is finite or
\* unlimited.
C18_NegativeRateSpawnsNothing ==
    (Fired /\ last.stage = "emit" /\ last.rate < 0) =>
        /\ last.zone = <<>>
        /\ last.particles = <<>>
        /\ emitter.remaining = last.before

\* C19: with total_emits None remaining is -1 and stays -1, and every firing
\* tick inside the emission window spawns the full truncated rate, unclamped.
C19_UnlimitedNeverClamped ==
    args.total_emits = None =>
        /\ emitter.remaining = -1
        /\ (Fired /\ last.stage # "emit") =>
              (last.stage = "closed" /\ args.duration # 0)
        /\ (Fired /\ last.stage = "emit") =>
              /\ last.emits = last.rate
              /\ Len(last.particles) = Max(last.rate, 0)

C19_Witness ==
    /\ args.total_emits = None
    /\ Fired /\ firings = 3
    /\ last.rate = 2
    /\ Len(last.particles) = 2
    /\ factory_calls = 6

\* C20: the heartbeat of a new Emitter is cold, so the first emitter_system
\* call fires; with a non-empty ticklist it arms ticklist[0], and the tick
\* argument is never armed as an interval.
C20_StartsCold ==
    /\ firings = 0 => (emitter.tick.remaining = 0 /\ ~Called)
    /\ (Fired /\ args.ticklist # <<>>) =>
          /\ \E i \in 1 .. Len(args.ticklist) : last.armed = args.ticklist[i]
          /\ emitter.tick.duration = last.armed
          /\ firings = 1 => last.armed = args.ticklist[1]

C20_Witness ==
    /\ Fired /\ firings = 1
    /\ now = 0
    /\ args.tick = 3 /\ args.ticklist = <<1, 2>>
    /\ last.armed = 1

----------------------------------------------------------------------------
(* Claims about the zones *)

\* the length of the rational vector u lies in [lo, hi]
LengthIn(u, lo, hi) ==
    LET sq == u.x * u.x + u.y * u.y
    IN /\ lo <= 0 \/ sq >= lo * lo * u.den * u.den
       /\ hi >= 0 /\ sq <= hi * hi * u.den * u.den

C12_CircleEmitInRing ==
    (zout.called /\ zone.kind = "circle" /\ zone.r0 <= zone.r1) =>
        /\ LengthIn(zout.position, zone.r0, zone.r1)
        /\ zout.momentum = zout.position

\* C12, amended: the same for every 0 <= r0 <= r1.
C12_CircleEmitInRingOfRadii ==
    (zout.called /\ zone.kind = "circle" /\ 0 <= zone.r0 /\ zone.r0 <= zone.r1) =>
        /\ LengthIn(zout.position, zone.r0, zone.r1)
        /\ zout.momentum = zout.position

C12_Witness ==
    /\ zout.called /\ zone.kind = "circle"
    /\ zone.r0 = 2 /\ zone.r1 = 6
    /\ zout.position.x = 0
    /\ zout.position.y > 2 * zout.position.den
    /\ zout.position.y < 6 * zout.position.den
    /\ zout.momentum = zout.position

\* C13: for every non-zero v and every width ZoneBeam.emit returns a position
\* s * v + d with s in [0, 1], d perpendicular to v (d . v = 0) and
\* |d| <= width / 2, and the momentum it returns is d.
C13_BeamEmitAroundLine ==
    (zout.called /\ zone.kind = "beam") =>
        LET d  == zout.momentum
            u  == RSub(zout.position, d)
            vx == zone.v[1]
            vy == zone.v[2]
        IN \* u = s * v with 0 <= s <= 1
           /\ u.x * vy - u.y * vx = 0
           /\ 0 <= u.x * vx + u.y * vy
           /\ u.x * vx + u.y * vy <= (vx * vx + vy * vy) * u.den
           \* d . v = 0
           /\ d.x * vx + d.y * vy = 0
           \* |d| <= width / 2
           /\ 4 * (d.x * d.x + d.y * d.y) <= zone.width * zone.width * d.den * d.den

====
